---- MODULE Spec2Model ----
(***************************************************************************)
(* A model of the bevy_movement character controller: the seven chained    *)
(* systems of CharacterControllerPlugin (manage_cursor, keyboard_input,    *)
(* gamepad_input, update_grounded, movement, mouse_look,                   *)
(* apply_movement_damping) acting on a fixed set of controller bodies.     *)
(*                                                                         *)
(* Numbers.  A Scalar is kept in fixed point, in thousandths (Unit), and a *)
(* product or quotient is rounded to the nearest thousandth, which stands  *)
(* for the rounding of the f32 operation.  Angles are in milliradians.     *)
(* Rotations are kept exactly, as integer matrices: the bodies' initial    *)
(* rotations and the yaw increments are whole quarter turns.               *)
(***************************************************************************)
EXTENDS Integers, Sequences, FiniteSets, TLC

\* ------------------------------------------------------------------ bounds

\* Number of frames (ticks) explored.
MaxTicks == 2

\* ------------------------------------------------------------------ numbers

\* One Scalar unit in fixed point (thousandths).
Unit == 1000

Abs(a) == IF a < 0 THEN -a ELSE a

\* a / b rounded to the nearest integer, ties away from zero (b > 0).
Quot(a, b) ==
    IF a >= 0 THEN (2 * a + b) \div (2 * b)
              ELSE -((2 * (-a) + b) \div (2 * b))

\* Fixed-point product of two Scalars.
Mul(a, b) == Quot(a * b, Unit)

\* The largest r' >= r with r' * r' <= n (r * r <= n).
RECURSIVE SqrtFrom(_, _)
SqrtFrom(n, r) == IF (r + 1) * (r + 1) > n THEN r ELSE SqrtFrom(n, r + 1)

\* Square root of n, to the nearest integer.
Sqrt(n) ==
    LET s == SqrtFrom(n, SqrtFrom(n \div 10000, 0) * 100)
    IN  IF n - s * s > (s + 1) * (s + 1) - n THEN s + 1 ELSE s

\* ------------------------------------------------------------------ vectors

ZERO  == <<0, 0, 0>>
X     == <<1, 0, 0>>
Y     == <<0, 1, 0>>
NEG_Z == <<0, 0, -1>>

VAdd(a, b)   == <<a[1] + b[1], a[2] + b[2], a[3] + b[3]>>
VScale(k, a) == <<k * a[1], k * a[2], k * a[3]>>
VNeg(a)      == VScale(-1, a)

\* A clamp of each axis on its own.
ClampEachAxis(v, max) ==
    << IF v[1] > max THEN max ELSE IF v[1] < -max THEN -max ELSE v[1],
       IF v[2] > max THEN max ELSE IF v[2] < -max THEN -max ELSE v[2] >>

\* Vector2::clamp_length_max(max) of glam, on a fixed-point 2-vector.
ClampLengthMax(v, max) ==
    LET length_sq == v[1] * v[1] + v[2] * v[2]
        length    == Sqrt(length_sq)
    IN  IF length_sq > max * max
        THEN <<Quot(max * v[1], length), Quot(max * v[2], length)>>
        ELSE v

\* ---------------------------------------------------------------- rotations

\* A quarter turn (FRAC_PI_2) in milliradians.
QuarterTurn == 1570

\* A rotation is the triple of the images of the X, Y and Z axes.
IDENTITY == [x |-> <<1, 0, 0>>, y |-> <<0, 1, 0>>, z |-> <<0, 0, 1>>]

\* rotation * vector
Rotate(r, v) == VAdd(VAdd(VScale(v[1], r.x), VScale(v[2], r.y)), VScale(v[3], r.z))

\* a * b : first b, then a
Compose(a, b) == [x |-> Rotate(a, b.x), y |-> Rotate(a, b.y), z |-> Rotate(a, b.z)]

\* A quarter turn about the world Y axis and about the world Z axis.
YawQuarter  == [x |-> <<0, 0, -1>>, y |-> <<0, 1, 0>>, z |-> <<1, 0, 0>>]
RollQuarter == [x |-> <<0, 1, 0>>, y |-> <<-1, 0, 0>>, z |-> <<0, 0, 1>>]

RECURSIVE RotPower(_, _)
RotPower(r, k) == IF k = 0 THEN IDENTITY ELSE Compose(r, RotPower(r, k - 1))

\* Quaternion::from_rotation_y(angle), for an angle of whole quarter turns.
FromRotationY(angle) == RotPower(YawQuarter, (angle \div QuarterTurn) % 4)

\* Vector::angle_between(Vector::Y), in milliradians, for the directions used.
AngleBetweenY(v) ==
    LET h2 == v[1] * v[1] + v[3] * v[3]
        y2 == v[2] * v[2]
    IN  CASE h2 = 0  /\ v[2] > 0 -> 0
          [] h2 = y2 /\ v[2] > 0 -> QuarterTurn \div 2
          [] h2 > 0  /\ v[2] = 0 -> QuarterTurn
          [] h2 = y2 /\ v[2] < 0 -> 2 * QuarterTurn - QuarterTurn \div 2
          [] h2 = 0  /\ v[2] < 0 -> 2 * QuarterTurn

\* ------------------------------------------------------------ configuration

\* Option
None    == <<>>
Some(a) == <<a>>

\* MovementBundle::new: the movement parameters of a body.
MovementBundle(acceleration, damping, jump_impulse, max_slope_angle) ==
    [ acceleration      |-> acceleration,
      damping           |-> damping,
      jump_impulse      |-> jump_impulse,
      max_slope_angle   |-> Some(max_slope_angle),
      mouse_sensitivity |-> 2,
      pitch_max         |-> QuarterTurn - 100 ]

\* MovementBundle::default: new(30.0, 0.9, 7.0, PI * 0.45)
DefaultMovement ==
    MovementBundle(30 * Unit, 900, 7 * Unit, (2 * QuarterTurn * 45) \div 100)

\* The controller bodies.  Body 1 is spawned by CharacterControllerBundle::new,
\* upright and at rest, with a camera child.  Body 2 is spawned
\* with_movement(25.0, 0.5, 8.0, PI / 4), lying on its side, moving and
\* falling, without a camera.  Body 3 is spawned as in examples/basic.rs,
\* with_movement(30.0, 0.92, 7.0, 30 degrees), upright and rising, with a camera;
\* its MaxSlopeAngle component has been removed.
Bodies == {1, 2, 3}

Params(b) ==
    CASE b = 1 -> DefaultMovement
      [] b = 2 -> MovementBundle(25 * Unit, 500, 8 * Unit, QuarterTurn \div 2)
      [] b = 3 -> [MovementBundle(30 * Unit, 920, 7 * Unit, QuarterTurn \div 3)
                      EXCEPT !.max_slope_angle = None]

InitialRotation(b) == IF b = 2 THEN RollQuarter ELSE IDENTITY

InitialVelocity(b) ==
    CASE b = 1 -> ZERO
      [] b = 2 -> <<500, -3000, 200>>
      [] b = 3 -> <<-400, 2000, 0>>

HasCamera(b) == b # 2

\* Absent values.
NoCamera == "none"

\* ------------------------------------------------------------------- inputs

\* ShapeHits of the ground caster: lists of hit normals (normal2).
Floor == <<0, -1, 0>>
Wall  == <<-1, 0, 0>>
HitLists == { <<>>, <<Wall>>, <<Wall, Floor>> }

\* Key states read by keyboard_input: [up, down, left, right].
Keys(up, down, left, right) == [up |-> up, down |-> down, left |-> left, right |-> right]
KeyStates == { Keys(FALSE, FALSE, FALSE, FALSE), Keys(FALSE, FALSE, FALSE, TRUE) }

\* MouseMotion deltas written between two frames.
MouseMotions ==
    { <<>>, << <<785 * Unit, -800 * Unit>> >>,
      << <<0, -800 * Unit>>, <<0, 800 * Unit>> >> }

\* Gamepads: axis values (None when the axis has no value) and the South button.
Gamepad(left, south, right) == [left |-> left, south |-> south, right |-> right]
GamepadStates ==
    { <<>>,
      << Gamepad(<<0, 0>>, FALSE, None) >>,
      << Gamepad(<<0, Unit>>, TRUE, <<0, Unit>>) >> }

\* Every state of the four direction keys, and one gamepad with its left stick
\* at rest, inside the unit circle, on it and outside it.
AllKeyStates == { Keys(u, d, l, r) : u, d, l, r \in BOOLEAN }
LeftSticks ==
    { <<0, 0>>, <<Unit \div 2, Unit \div 2>>, <<0, -Unit>>, <<Unit, Unit>>,
      <<-Unit, (3 * Unit) \div 10>>, <<-(6 * Unit) \div 10, -(9 * Unit) \div 10>> }
LeftStickStates == { <<>> } \cup { << Gamepad(left, FALSE, None) >> : left \in LeftSticks }

\* No gamepad, one and two gamepads with the right stick at rest (and no
\* value for the left stick).
RightStickStates ==
    LET at_rest == Gamepad(None, FALSE, <<0, 0>>)
    IN  { <<>>, << at_rest >>, << at_rest, at_rest >> }

\* Frame rates: delta_time is 1 / rate seconds.
FrameRates == {60}

\* ---------------------------------------------------------------- the state

VARIABLES
    pc,               \* 0 between frames, else the index in Chain of the next system
    tick,             \* frames started
    cursor_options,   \* [grab_mode, visible]
    enable_input,     \* FpsController.enable_input of each body
    linear_velocity,  \* LinearVelocity of each body
    rotation,         \* Rotation of each body
    pitch,            \* Pitch.angle of each body
    pitch_max,        \* Pitch.max of each body
    damping_factors,  \* MovementDampingFactor of each body
    camera,           \* X rotation angle of the camera child, or NoCamera
    grounded,         \* whether the body carries the Grounded marker
    hits,             \* ShapeHits of each body
    movement_reader,  \* MovementAction messages unread by movement and by mouse_look
    mouse_motion,     \* MouseMotion messages unread by keyboard_input
    pressed,          \* the jump triggers held down
    \* history
    ran,              \* the systems run in this frame, in order
    input,            \* what the last system read: devices and messages
    written,          \* the MovementActions written in this frame, in order
    before,           \* the components before the last system ran
    start,            \* the components when this frame started
    arrived,          \* the MouseMotion deltas that arrived for this frame
    coasting          \* the bodies whose velocity movement has never changed

components ==
    << cursor_options, enable_input, linear_velocity, rotation, pitch, pitch_max,
       damping_factors, camera, grounded, hits, movement_reader, mouse_motion,
       pressed >>

vars ==
    << pc, tick, components, ran, input, written, before, start, arrived, coasting >>

\* The components, as one value.
World ==
    [ cursor_options  |-> cursor_options,
      enable_input    |-> enable_input,
      linear_velocity |-> linear_velocity,
      rotation        |-> rotation,
      pitch           |-> pitch,
      pitch_max       |-> pitch_max,
      damping_factors |-> damping_factors,
      camera          |-> camera,
      grounded        |-> grounded,
      hits            |-> hits,
      movement_reader |-> movement_reader,
      mouse_motion    |-> mouse_motion,
      pressed         |-> pressed ]

\* ----------------------------------------------------------------- messages

\* MessageWriter::write: the message becomes unread for the reader.
Write(unread, m) == Append(unread, [m |-> m, age |-> 0])

RECURSIVE WriteAll(_, _)
WriteAll(unread, ms) ==
    IF ms = <<>> THEN unread ELSE WriteAll(Write(unread, Head(ms)), Tail(ms))

\* Messages::update: a message is dropped at the second update after its write.
Update(unread) ==
    LET kept == SelectSeq(unread, LAMBDA e : e.age < 1)
    IN  [i \in 1..Len(kept) |-> [kept[i] EXCEPT !.age = @ + 1]]

\* MessageReader::read: the unread messages in order of writing.
Read(unread) == [i \in 1..Len(unread) |-> unread[i].m]

\* A reader whose read leaves the messages unread.
AfterReadKeeping(unread) == unread

\* The reader's unread messages after a read.
AfterRead(unread) == <<>>

\* MovementAction
Move(direction) == [kind |-> "Move", v |-> direction]
Jump            == [kind |-> "Jump", v |-> <<0, 0>>]
Look(delta)     == [kind |-> "Look", v |-> delta]

\* The events of the given kind, in order.
Only(events, kind) == SelectSeq(events, LAMBDA e : e.kind = kind)

\* ----------------------------------------------------------------- schedule

\* A chain in which movement runs before update_grounded.
ChainMovingFirst ==
    << "manage_cursor", "keyboard_input", "gamepad_input", "movement",
       "update_grounded", "mouse_look", "apply_movement_damping" >>

\* CharacterControllerPlugin::build: the systems, chained.
Chain ==
    << "manage_cursor", "keyboard_input", "gamepad_input", "update_grounded",
       "movement", "mouse_look", "apply_movement_damping" >>

\* The system at position pc of the chain is about to run.
Runs(system) == pc \in 1..Len(Chain) /\ Chain[pc] = system

\* The system has run, having read `read`: the next one of the chain follows.
Ran(system, read) ==
    /\ pc' = IF pc = Len(Chain) THEN 0 ELSE pc + 1
    /\ tick' = tick
    /\ ran' = Append(ran, system)
    /\ input' = [system |-> system, read |-> read]
    /\ before' = World
    /\ start' = start
    /\ arrived' = arrived

\* The state once the bodies are spawned, their Pitch.max drawn from
\* pitch_maxima and their MovementDampingFactor from dampings.
Spawned(pitch_maxima, dampings) ==
    /\ pc = 0
    /\ tick = 0
    /\ cursor_options = [grab_mode |-> "None", visible |-> TRUE]
    /\ enable_input \in { [b \in Bodies |-> FALSE], [b \in Bodies |-> b = 2] }
    /\ linear_velocity = [b \in Bodies |-> InitialVelocity(b)]
    /\ rotation = [b \in Bodies |-> InitialRotation(b)]
    /\ pitch = [b \in Bodies |-> 0]
    /\ pitch_max \in pitch_maxima
    /\ damping_factors \in dampings
    /\ camera = [b \in Bodies |-> IF HasCamera(b) THEN 0 ELSE NoCamera]
    /\ grounded = [b \in Bodies |-> FALSE]
    /\ hits = [b \in Bodies |-> <<>>]
    /\ movement_reader = [movement |-> <<>>, mouse_look |-> <<>>]
    /\ mouse_motion = <<>>
    /\ pressed = {}
    /\ ran = <<>>
    /\ input = [system |-> "none", read |-> <<>>]
    /\ written = <<>>
    /\ before = World
    /\ start = World
    /\ arrived = <<>>
    /\ coasting = Bodies

\* Every Pitch.max and every damping factor as MovementBundle::new sets it.
Init ==
    Spawned({ [b \in Bodies |-> Params(b).pitch_max] },
            { [b \in Bodies |-> Params(b).damping] })

\* Between two frames: the physics step writes the shape hits, the window
\* writes the mouse motion, and the First schedule updates the messages
\* (`updates` holds FALSE when the update may wait for the fixed time step).
Frame(updates) ==
    /\ pc = 0
    /\ tick < MaxTicks
    /\ \E hit_list \in HitLists, motion \in MouseMotions, update \in updates :
          /\ hits' = [b \in Bodies |-> hit_list]
          /\ mouse_motion' =
                LET unread == WriteAll(mouse_motion, motion)
                IN  IF update THEN Update(unread) ELSE unread
          /\ movement_reader' =
                IF update THEN [r \in DOMAIN movement_reader |-> Update(movement_reader[r])]
                          ELSE movement_reader
          /\ arrived' = motion
    /\ pc' = 1
    /\ tick' = tick + 1
    /\ ran' = <<>>
    /\ input' = [system |-> "none", read |-> <<>>]
    /\ written' = <<>>
    /\ before' = World
    /\ start' = [World EXCEPT !.hits = hits', !.mouse_motion = mouse_motion',
                              !.movement_reader = movement_reader']
    /\ UNCHANGED << pitch_max, damping_factors >>
    /\ UNCHANGED << cursor_options, enable_input, linear_velocity, rotation, pitch,
                    camera, grounded, pressed, coasting >>

\* A frame begins; the messages are updated in every frame.
BeginFrame == Frame({TRUE})

\* ------------------------------------------------------------------ systems

Bit(flag) == IF flag THEN 1 ELSE 0

\* ButtonInput: the held triggers once the device state `down` of `trigger` is in.
Press(held, trigger, down) == IF down THEN held \cup {trigger} ELSE held \ {trigger}

\* A just_pressed that is true for as long as the trigger is down.
JustPressedHeld(held, trigger, down) == down

\* ButtonInput::just_pressed: down now, and not held in the frame before.
JustPressed(held, trigger, down) == down /\ trigger \notin held

Space    == <<0, "Space">>
South(i) == <<i, "South">>

\* Whether any FpsController has input enabled.
InputEnabled == \E b \in Bodies : enable_input[b]

\* A manage_cursor whose Escape disables the controllers and leaves the cursor.
manage_cursor_keeping_cursor ==
    /\ Runs("manage_cursor")
    /\ \E left \in BOOLEAN, right \in BOOLEAN, escape \in BOOLEAN :
          LET cursor_grabbed  == left
              cursor_released == escape
          IN  /\ cursor_options' =
                    IF cursor_grabbed THEN [grab_mode |-> "Locked", visible |-> FALSE]
                                      ELSE cursor_options
              /\ enable_input' =
                    [b \in Bodies |->
                        IF cursor_released THEN FALSE
                        ELSE IF cursor_grabbed THEN TRUE
                        ELSE enable_input[b]]
              /\ Ran("manage_cursor",
                     [left |-> left, right |-> right, escape |-> escape])
    /\ UNCHANGED << pitch_max, damping_factors >>
    /\ UNCHANGED << linear_velocity, rotation, pitch, camera, grounded, hits,
                    movement_reader, mouse_motion, pressed, written, coasting >>

\* A manage_cursor in which the click is applied after Escape.
manage_cursor_grabbing_last ==
    /\ Runs("manage_cursor")
    /\ \E left \in BOOLEAN, right \in BOOLEAN, escape \in BOOLEAN :
          LET cursor_grabbed  == left
              cursor_released == escape
              released ==
                  IF cursor_released THEN [grab_mode |-> "None", visible |-> TRUE]
                                     ELSE cursor_options
          IN  /\ cursor_options' =
                    IF cursor_grabbed THEN [grab_mode |-> "Locked", visible |-> FALSE]
                                      ELSE released
              /\ enable_input' =
                    [b \in Bodies |->
                        IF cursor_grabbed THEN TRUE
                        ELSE IF cursor_released THEN FALSE
                        ELSE enable_input[b]]
              /\ Ran("manage_cursor",
                     [left |-> left, right |-> right, escape |-> escape])
    /\ UNCHANGED << pitch_max, damping_factors >>
    /\ UNCHANGED << linear_velocity, rotation, pitch, camera, grounded, hits,
                    movement_reader, mouse_motion, pressed, written, coasting >>

\* A manage_cursor that releases the cursor in every frame without a left click.
manage_cursor_releasing ==
    /\ Runs("manage_cursor")
    /\ \E left \in BOOLEAN, right \in BOOLEAN, escape \in BOOLEAN :
          LET cursor_grabbed  == left
              cursor_released == ~left
              grabbed ==
                  IF cursor_grabbed THEN [grab_mode |-> "Locked", visible |-> FALSE]
                                    ELSE cursor_options
          IN  /\ cursor_options' =
                    IF cursor_released THEN [grab_mode |-> "None", visible |-> TRUE]
                                       ELSE grabbed
              /\ enable_input' =
                    [b \in Bodies |->
                        IF cursor_released THEN FALSE
                        ELSE IF cursor_grabbed THEN TRUE
                        ELSE enable_input[b]]
              /\ Ran("manage_cursor",
                     [left |-> left, right |-> right, escape |-> escape])
    /\ UNCHANGED << pitch_max, damping_factors >>
    /\ UNCHANGED << linear_velocity, rotation, pitch, camera, grounded, hits,
                    movement_reader, mouse_motion, pressed, written, coasting >>

\* manage_cursor: a left click grabs the cursor and enables the controllers,
\* Escape releases it and disables them.  left, right and escape tell whether
\* MouseButton::Left, MouseButton::Right and KeyCode::Escape are just pressed
\* in this frame; the system does not look at the right button.
manage_cursor ==
    /\ Runs("manage_cursor")
    /\ \E left \in BOOLEAN, right \in BOOLEAN, escape \in BOOLEAN :
          LET cursor_grabbed  == left
              cursor_released == escape
              grabbed ==
                  IF cursor_grabbed THEN [grab_mode |-> "Locked", visible |-> FALSE]
                                    ELSE cursor_options
          IN  /\ cursor_options' =
                    IF cursor_released THEN [grab_mode |-> "None", visible |-> TRUE]
                                       ELSE grabbed
              /\ enable_input' =
                    [b \in Bodies |->
                        IF cursor_released THEN FALSE
                        ELSE IF cursor_grabbed THEN TRUE
                        ELSE enable_input[b]]
              /\ Ran("manage_cursor",
                     [left |-> left, right |-> right, escape |-> escape])
    /\ UNCHANGED << pitch_max, damping_factors >>
    /\ UNCHANGED << linear_velocity, rotation, pitch, camera, grounded, hits,
                    movement_reader, mouse_motion, pressed, written, coasting >>

\* A keyboard_input that turns the mouse motion into Looks whatever the flags.
KeyboardActionsUngated(keys, jump, input_enabled, motion) ==
    LET horizontal == Bit(keys.right) - Bit(keys.left)
        vertical   == Bit(keys.up) - Bit(keys.down)
        direction  == ClampLengthMax(<<horizontal * Unit, vertical * Unit>>, Unit)
    IN  (IF direction # <<0, 0>> THEN << Move(direction) >> ELSE <<>>)
        \o (IF jump THEN << Jump >> ELSE <<>>)
        \o [i \in 1..Len(motion) |-> Look(motion[i])]

\* The MovementActions keyboard_input writes, in order.
KeyboardActions(keys, jump, input_enabled, motion) ==
    LET horizontal == Bit(keys.right) - Bit(keys.left)
        vertical   == Bit(keys.up) - Bit(keys.down)
        direction  == ClampLengthMax(<<horizontal * Unit, vertical * Unit>>, Unit)
    IN  (IF direction # <<0, 0>> THEN << Move(direction) >> ELSE <<>>)
        \o (IF jump THEN << Jump >> ELSE <<>>)
        \o (IF input_enabled THEN [i \in 1..Len(motion) |-> Look(motion[i])] ELSE <<>>)

\* keyboard_input, the direction keys in one of the given states.
keyboard_input_with(key_states) ==
    /\ Runs("keyboard_input")
    /\ \E keys \in key_states, space \in BOOLEAN :
          LET actions ==
                  KeyboardActions(keys, JustPressed(pressed, Space, space),
                                  InputEnabled, Read(mouse_motion))
          IN  /\ movement_reader' =
                    [r \in DOMAIN movement_reader |-> WriteAll(movement_reader[r], actions)]
              /\ written' = written \o actions
              /\ mouse_motion' =
                    IF InputEnabled THEN AfterRead(mouse_motion) ELSE mouse_motion
              /\ pressed' = Press(pressed, Space, space)
              /\ Ran("keyboard_input",
                     [keys |-> keys, space |-> space, motion |-> Read(mouse_motion)])
    /\ UNCHANGED << pitch_max, damping_factors >>
    /\ UNCHANGED << cursor_options, enable_input, linear_velocity, rotation, pitch,
                    camera, grounded, hits, coasting >>

keyboard_input == keyboard_input_with(KeyStates)

\* The MovementActions gamepad_input writes for the gamepads from i on, in order.
RECURSIVE GamepadActions(_, _, _)
GamepadActions(gamepads, i, held) ==
    IF i > Len(gamepads) THEN <<>>
    ELSE LET gamepad == gamepads[i]
             look_sensitivity == 2
         IN  (IF gamepad.left # None
                 THEN << Move(ClampLengthMax(gamepad.left, Unit)) >> ELSE <<>>)
             \o (IF JustPressed(held, South(i), gamepad.south) THEN << Jump >> ELSE <<>>)
             \o (IF gamepad.right # None
                 THEN << Look(<< gamepad.right[1] * look_sensitivity,
                                 (-gamepad.right[2]) * look_sensitivity >>) >>
                 ELSE <<>>)
             \o GamepadActions(gamepads, i + 1, held)

\* The held triggers once the South buttons of the connected gamepads are in.
PressAll(held, gamepads) ==
    { t \in held : t = Space }
        \cup { South(i) : i \in { j \in 1..Len(gamepads) : gamepads[j].south } }

\* gamepad_input, the gamepads in one of the given states.
gamepad_input_with(gamepad_states) ==
    /\ Runs("gamepad_input")
    /\ \E gamepads \in gamepad_states :
          LET actions ==
                  IF ~InputEnabled THEN <<>> ELSE GamepadActions(gamepads, 1, pressed)
          IN  /\ movement_reader' =
                    [r \in DOMAIN movement_reader |-> WriteAll(movement_reader[r], actions)]
              /\ written' = written \o actions
              /\ pressed' = PressAll(pressed, gamepads)
              /\ Ran("gamepad_input", [gamepads |-> gamepads])
    /\ UNCHANGED << pitch_max, damping_factors >>
    /\ UNCHANGED << cursor_options, enable_input, linear_velocity, rotation, pitch,
                    camera, grounded, hits, mouse_motion, coasting >>

gamepad_input == gamepad_input_with(GamepadStates)

\* Whether a hit list grounds a body of the given rotation and slope limit.
IsGrounded(hit_list, rot, max_slope_angle) ==
    \E i \in 1..Len(hit_list) :
        IF max_slope_angle # None
        THEN Abs(AngleBetweenY(Rotate(rot, VNeg(hit_list[i])))) <= max_slope_angle[1]
        ELSE TRUE

\* An update_grounded that inserts the marker and never removes it.
update_grounded_inserting ==
    /\ Runs("update_grounded")
    /\ grounded' =
          [b \in Bodies |->
              grounded[b] \/ IsGrounded(hits[b], rotation[b], Params(b).max_slope_angle)]
    /\ Ran("update_grounded", [hits |-> hits])
    /\ UNCHANGED << pitch_max, damping_factors >>
    /\ UNCHANGED << cursor_options, enable_input, linear_velocity, rotation, pitch,
                    camera, hits, movement_reader, mouse_motion, pressed, written,
                    coasting >>

\* update_grounded, with its commands applied before the next system runs.
update_grounded ==
    /\ Runs("update_grounded")
    /\ grounded' =
          [b \in Bodies |-> IsGrounded(hits[b], rotation[b], Params(b).max_slope_angle)]
    /\ Ran("update_grounded", [hits |-> hits])
    /\ UNCHANGED << pitch_max, damping_factors >>
    /\ UNCHANGED << cursor_options, enable_input, linear_velocity, rotation, pitch,
                    camera, hits, movement_reader, mouse_motion, pressed, written,
                    coasting >>

\* A velocity increment that leaves out delta_time.
MovementVectorPerSecond(b, rot, direction, rate) ==
    LET forward == Rotate(rot, NEG_Z)
        right   == Rotate(rot, X)
        along   == VAdd(VScale(direction[1], right), VScale(direction[2], forward))
    IN  [i \in 1..3 |-> Mul(along[i], Params(b).acceleration)]

\* The velocity increment of a Move on body b.
MovementVector(b, rot, direction, rate) ==
    LET forward == Rotate(rot, NEG_Z)
        right   == Rotate(rot, X)
        along   == VAdd(VScale(direction[1], right), VScale(direction[2], forward))
    IN  [i \in 1..3 |-> Quot(Mul(along[i], Params(b).acceleration), rate)]

\* A jump that adds the impulse instead of setting it.
MoveBodyAddingJump(b, enabled, is_grounded, rot, velocity, event, rate) ==
    IF ~enabled THEN velocity
    ELSE CASE event.kind = "Move" ->
                LET movement_vector == MovementVector(b, rot, event.v, rate)
                IN  << velocity[1] + movement_vector[1], velocity[2],
                       velocity[3] + movement_vector[3] >>
           [] event.kind = "Jump" ->
                IF is_grounded
                THEN << velocity[1], velocity[2] + Params(b).jump_impulse, velocity[3] >>
                ELSE velocity
           [] event.kind = "Look" -> velocity

\* A movement that does not skip the bodies whose input is disabled.
MoveBodyUngated(b, enabled, is_grounded, rot, velocity, event, rate) ==
    CASE event.kind = "Move" ->
            LET movement_vector == MovementVector(b, rot, event.v, rate)
            IN  << velocity[1] + movement_vector[1], velocity[2],
                   velocity[3] + movement_vector[3] >>
      [] event.kind = "Jump" ->
            IF is_grounded THEN << velocity[1], Params(b).jump_impulse, velocity[3] >>
                           ELSE velocity
      [] event.kind = "Look" -> velocity

\* A movement that adds the whole movement vector, its Y component too.
MoveBodyAllAxes(b, enabled, is_grounded, rot, velocity, event, rate) ==
    IF ~enabled THEN velocity
    ELSE CASE event.kind = "Move" ->
                VAdd(velocity, MovementVector(b, rot, event.v, rate))
           [] event.kind = "Jump" ->
                IF is_grounded THEN << velocity[1], Params(b).jump_impulse, velocity[3] >>
                               ELSE velocity
           [] event.kind = "Look" -> velocity

\* movement, one event on one body: the body's linear velocity afterwards.
MoveBody(b, enabled, is_grounded, rot, velocity, event, rate) ==
    IF ~enabled THEN velocity
    ELSE CASE event.kind = "Move" ->
                LET movement_vector == MovementVector(b, rot, event.v, rate)
                IN  << velocity[1] + movement_vector[1], velocity[2],
                       velocity[3] + movement_vector[3] >>
           [] event.kind = "Jump" ->
                IF is_grounded THEN << velocity[1], Params(b).jump_impulse, velocity[3] >>
                               ELSE velocity
           [] event.kind = "Look" -> velocity

\* A movement in which a Move replaces the Moves before it: only the last counts.
RECURSIVE MoveAllLastMove(_, _, _, _)
MoveAllLastMove(b, velocity, events, rate) ==
    IF events = <<>> THEN velocity
    ELSE IF Head(events).kind = "Move"
            /\ \E i \in 1..Len(Tail(events)) : Tail(events)[i].kind = "Move"
         THEN MoveAllLastMove(b, velocity, Tail(events), rate)
         ELSE MoveAllLastMove(b, MoveBody(b, enable_input[b], grounded[b], rotation[b],
                                          velocity, Head(events), rate),
                              Tail(events), rate)

\* A movement that sees the Grounded marker as the frame before left it.
RECURSIVE MoveAllStaleGround(_, _, _, _)
MoveAllStaleGround(b, velocity, events, rate) ==
    IF events = <<>> THEN velocity
    ELSE MoveAllStaleGround(b, MoveBody(b, enable_input[b], start.grounded[b],
                                        rotation[b], velocity, Head(events), rate),
                            Tail(events), rate)

\* movement, the events in order on one body.
RECURSIVE MoveAll(_, _, _, _)
MoveAll(b, velocity, events, rate) ==
    IF events = <<>> THEN velocity
    ELSE MoveAll(b, MoveBody(b, enable_input[b], grounded[b], rotation[b], velocity,
                             Head(events), rate),
                 Tail(events), rate)

movement ==
    /\ Runs("movement")
    /\ \E rate \in FrameRates :
          /\ linear_velocity' =
                [b \in Bodies |->
                    MoveAll(b, linear_velocity[b], Read(movement_reader.movement), rate)]
          /\ Ran("movement", [events |-> Read(movement_reader.movement), rate |-> rate])
    /\ movement_reader' = [movement_reader EXCEPT !.movement = AfterRead(@)]
    /\ coasting' = { b \in coasting : linear_velocity'[b] = linear_velocity[b] }
    /\ UNCHANGED << pitch_max, damping_factors >>
    /\ UNCHANGED << cursor_options, enable_input, rotation, pitch, camera, grounded,
                    hits, mouse_motion, pressed, written >>

\* A clamp that lets the upper limit through.
ClampBelow(a, min, max) == IF a < min THEN min ELSE a

\* f32::clamp
Clamp(a, min, max) == IF a < min THEN min ELSE IF a > max THEN max ELSE a

\* A mouse_look that turns the camera by the pitch instead of setting it.
LookBodyComposing(b, enabled, view, event) ==
    IF event.kind # "Look" \/ ~enabled THEN view
    ELSE LET sensitivity == Params(b).mouse_sensitivity
             yaw_delta   == -Mul(event.v[1], sensitivity)
             pitch_delta == -Mul(event.v[2], sensitivity)
             angle       == Clamp(view.pitch + pitch_delta,
                                  -pitch_max[b], pitch_max[b])
         IN  [ rotation |-> Compose(FromRotationY(yaw_delta), view.rotation),
               pitch    |-> angle,
               camera   |-> IF HasCamera(b) THEN view.camera + angle ELSE view.camera ]

\* mouse_look, one event on one body: its [rotation, pitch, camera] afterwards.
LookBody(b, enabled, view, event) ==
    IF event.kind # "Look" \/ ~enabled THEN view
    ELSE LET sensitivity == Params(b).mouse_sensitivity
             yaw_delta   == -Mul(event.v[1], sensitivity)
             pitch_delta == -Mul(event.v[2], sensitivity)
             angle       == Clamp(view.pitch + pitch_delta,
                                  -pitch_max[b], pitch_max[b])
         IN  [ rotation |-> Compose(FromRotationY(yaw_delta), view.rotation),
               pitch    |-> angle,
               camera   |-> IF HasCamera(b) THEN angle ELSE view.camera ]

\* A mouse_look that takes the events last first.
RECURSIVE LookAllBackwards(_, _, _)
LookAllBackwards(b, view, events) ==
    IF events = <<>> THEN view
    ELSE LookBody(b, enable_input[b], LookAllBackwards(b, view, Tail(events)),
                  Head(events))

\* mouse_look, the events in order on one body.
RECURSIVE LookAll(_, _, _)
LookAll(b, view, events) ==
    IF events = <<>> THEN view
    ELSE LookAll(b, LookBody(b, enable_input[b], view, Head(events)), Tail(events))

\* f32::clamp panics when min > max (or one of them is NaN).
ClampPanics(min, max) == min > max

\* Whether mouse_look, reading these events, comes to a clamp that panics: a
\* Look is processed for an enabled body whose Pitch.max is below zero.
LookPanics(events) ==
    /\ Only(events, "Look") # <<>>
    /\ \E b \in Bodies : enable_input[b] /\ ClampPanics(-pitch_max[b], pitch_max[b])

\* The position of a program that a panic has ended.
Aborted == -1

\* mouse_look.  A panic ends the program: no system runs after it, and what
\* the system had written before it is of no account.
mouse_look ==
    /\ Runs("mouse_look")
    /\ IF LookPanics(Read(movement_reader.mouse_look))
       THEN /\ pc' = Aborted
            /\ UNCHANGED << tick, components, ran, input, written, before, start,
                            arrived, coasting >>
       ELSE /\ LET after ==
                      [b \in Bodies |->
                          LookAll(b, [rotation |-> rotation[b], pitch |-> pitch[b],
                                      camera |-> camera[b]],
                                  Read(movement_reader.mouse_look))]
               IN  /\ rotation' = [b \in Bodies |-> after[b].rotation]
                   /\ pitch'    = [b \in Bodies |-> after[b].pitch]
                   /\ camera'   = [b \in Bodies |-> after[b].camera]
            /\ movement_reader' = [movement_reader EXCEPT !.mouse_look = AfterRead(@)]
            /\ Ran("mouse_look", [events |-> Read(movement_reader.mouse_look)])
            /\ UNCHANGED << pitch_max, damping_factors >>
            /\ UNCHANGED << cursor_options, enable_input, linear_velocity,
                            grounded, hits, mouse_motion, pressed, written, coasting >>

\* A damping of all three components.
DampAll(velocity, damping_factor) ==
    << Mul(velocity[1], damping_factor), Mul(velocity[2], damping_factor),
       Mul(velocity[3], damping_factor) >>

\* apply_movement_damping on one velocity.
Damp(velocity, damping_factor) ==
    << Mul(velocity[1], damping_factor), velocity[2], Mul(velocity[3], damping_factor) >>

apply_movement_damping ==
    /\ Runs("apply_movement_damping")
    /\ linear_velocity' =
          [b \in Bodies |-> Damp(linear_velocity[b], damping_factors[b])]
    /\ Ran("apply_movement_damping", <<>>)
    /\ UNCHANGED << pitch_max, damping_factors >>
    /\ UNCHANGED << cursor_options, enable_input, rotation, pitch, camera, grounded,
                    hits, movement_reader, mouse_motion, pressed, written, coasting >>

Next ==
    \/ BeginFrame
    \/ manage_cursor
    \/ keyboard_input
    \/ gamepad_input
    \/ update_grounded
    \/ movement
    \/ mouse_look
    \/ apply_movement_damping

Spec == Init /\ [][Next]_vars

\* One frame with every combination of the direction keys and a left stick
\* anywhere in its square.
FirstFrame == tick = 0 /\ BeginFrame

NextDirections ==
    \/ FirstFrame
    \/ manage_cursor
    \/ keyboard_input_with(AllKeyStates)
    \/ gamepad_input_with(LeftStickStates)
    \/ update_grounded
    \/ movement
    \/ mouse_look
    \/ apply_movement_damping

SpecDirections == Init /\ [][NextDirections]_vars

\* One frame of the plugin.
NextFirstFrame ==
    \/ FirstFrame
    \/ manage_cursor
    \/ keyboard_input
    \/ gamepad_input
    \/ update_grounded
    \/ movement
    \/ mouse_look
    \/ apply_movement_damping

\* The bodies spawned with the two damping values MovementBundle::new
\* documents, 0.0 and 1.0.
InitDocumentedDamping ==
    Spawned({ [b \in Bodies |-> Params(b).pitch_max] },
            { [b \in Bodies |-> 0], [b \in Bodies |-> Unit] })

SpecDocumentedDamping == InitDocumentedDamping /\ [][NextFirstFrame]_vars

\* The plugin with gamepads whose right stick is at rest.
NextLooks ==
    \/ BeginFrame
    \/ manage_cursor
    \/ keyboard_input
    \/ gamepad_input_with(RightStickStates)
    \/ update_grounded
    \/ movement
    \/ mouse_look
    \/ apply_movement_damping

SpecLooks == Init /\ [][NextLooks]_vars

\* Every controller spawned with FpsController::default.
InitDefaultFlags == Init /\ \A b \in Bodies : ~enable_input[b]

SpecDefaultFlags == InitDefaultFlags /\ [][Next]_vars

\* A frame begins; the messages are updated only in a frame that follows one
\* in which the fixed time step has run.
BeginFrameFixedStep == Frame({TRUE, FALSE})

NextFixedStep ==
    \/ BeginFrameFixedStep
    \/ manage_cursor
    \/ keyboard_input
    \/ gamepad_input
    \/ update_grounded
    \/ movement
    \/ mouse_look
    \/ apply_movement_damping

SpecFixedStep == InitDefaultFlags /\ [][NextFixedStep]_vars

\* Pitch.max is a public field: the bodies as spawned, but for the Pitch.max
\* of body 3, which the application has set to -0.5 or to 0.
InitAnyPitchMax ==
    Spawned({ [b \in Bodies |-> IF b = 3 THEN max ELSE Params(b).pitch_max] :
                max \in {-(Unit \div 2), 0} },
            { [b \in Bodies |-> Params(b).damping] })

SpecAnyPitchMax == InitAnyPitchMax /\ [][Next]_vars

\* ------------------------------------------------------------------- claims

\* The last system that has run in this frame.
Done(system) == ran # <<>> /\ ran[Len(ran)] = system

\* C1: once movement has processed the frame's events, an input-enabled body
\* that is not grounded has its vertical velocity unchanged, and a grounded
\* one that got at least one Jump has it equal to its jump impulse, whatever
\* it was before and however many Jumps there were.
C1_JumpSetsImpulse ==
    Done("movement") =>
        \A b \in Bodies :
            enable_input[b] =>
                /\ ~grounded[b] =>
                      linear_velocity[b][2] = before.linear_velocity[b][2]
                /\ grounded[b] /\ Only(input.read.events, "Jump") # <<>> =>
                      linear_velocity[b][2] = Params(b).jump_impulse

\* Two Jumps in one frame on a grounded, falling body.
C1_Witness ==
    /\ Done("movement")
    /\ \E b \in Bodies :
          /\ enable_input[b] /\ grounded[b]
          /\ Len(Only(input.read.events, "Jump")) = 2
          /\ before.linear_velocity[b][2] < 0
          /\ linear_velocity[b][2] = Params(b).jump_impulse

\* Whether a hit passes the slope filter of body b.
PassesSlopeFilter(b, normal) ==
    \/ Params(b).max_slope_angle = None
    \/ AngleBetweenY(Rotate(rotation[b], VNeg(normal))) <= Params(b).max_slope_angle[1]

\* C2: after update_grounded a body is grounded if and only if one of its
\* hits passes the slope filter, whatever the marker was in the frame before.
C2_GroundedIffPassingHit ==
    Done("update_grounded") =>
        \A b \in Bodies :
            grounded[b] <=> \E i \in 1..Len(hits[b]) : PassesSlopeFilter(b, hits[b][i])

\* A body grounded in the frame before whose hits now all fail the filter.
C2_Witness ==
    /\ Done("update_grounded")
    /\ \E b \in Bodies :
          /\ before.grounded[b]
          /\ hits[b] # <<>>
          /\ ~grounded[b]

\* The pitch after the Look deltas, each integrated and clamped in turn.
RECURSIVE PitchAfter(_, _, _)
PitchAfter(b, angle, looks) ==
    IF looks = <<>> THEN angle
    ELSE LET sum == angle - Mul(Head(looks).v[2], Params(b).mouse_sensitivity)
             max == pitch_max[b]
         IN  PitchAfter(b, IF sum > max THEN max ELSE IF sum < -max THEN -max ELSE sum,
                        Tail(looks))

\* C3: the pitch of every body stays within [-max, max], and mouse_look
\* leaves an enabled body's pitch at the value obtained by integrating and
\* clamping the frame's Look intents one by one.
C3_PitchClamped ==
    /\ \A b \in Bodies : -pitch_max[b] <= pitch[b] /\ pitch[b] <= pitch_max[b]
    /\ Done("mouse_look") =>
          \A b \in Bodies :
              enable_input[b] =>
                  pitch[b] = PitchAfter(b, before.pitch[b], Only(input.read.events, "Look"))

\* A Look that drives the pitch past the limit leaves it at exactly max.
C3_Witness ==
    /\ Done("mouse_look")
    /\ \E b \in Bodies :
          /\ enable_input[b]
          /\ Len(Only(input.read.events, "Look")) = 1
          /\ before.pitch[b]
                - Mul(input.read.events[1].v[2], Params(b).mouse_sensitivity)
                > pitch_max[b]
          /\ pitch[b] = pitch_max[b]

\* The horizontal velocity damped by the factor of body b, the vertical kept.
DampedBy(b, velocity) ==
    << Mul(velocity[1], damping_factors[b]), velocity[2],
       Mul(velocity[3], damping_factors[b]) >>

\* C4 as claimed: a body whose input is disabled through a frame in which
\* intents are issued ends the frame with the linear velocity, rotation and
\* pitch it started with.
C4_DisabledBodyUnchanged ==
    Done("apply_movement_damping") /\ written # <<>> =>
        \A b \in Bodies :
            ~start.enable_input[b] /\ ~enable_input[b] =>
                /\ linear_velocity[b] = start.linear_velocity[b]
                /\ rotation[b] = start.rotation[b]
                /\ pitch[b] = start.pitch[b]

\* C4 amended: for a body whose input is disabled after the cursor stage,
\* movement and mouse_look change nothing, and the frame ends with the same
\* rotation, pitch and vertical velocity and with the horizontal velocity
\* damped once.
C4_DisabledBodyOnlyDamped ==
    \A b \in Bodies :
        ~enable_input[b] =>
            /\ Done("movement") => linear_velocity[b] = before.linear_velocity[b]
            /\ Done("mouse_look") =>
                  rotation[b] = before.rotation[b] /\ pitch[b] = before.pitch[b]
            /\ Done("apply_movement_damping") /\ written # <<>> =>
                  /\ linear_velocity[b] = DampedBy(b, start.linear_velocity[b])
                  /\ rotation[b] = start.rotation[b]
                  /\ pitch[b] = start.pitch[b]

\* A disabled, moving body at the end of a frame with a Move, a Jump and a Look.
C4_Witness ==
    /\ Done("apply_movement_damping")
    /\ \A kind \in {"Move", "Jump", "Look"} : Only(written, kind) # <<>>
    /\ \E b \in Bodies :
          /\ ~enable_input[b]
          /\ grounded[b]
          /\ linear_velocity[b] # start.linear_velocity[b]

\* C5 as claimed: while no controller has input enabled the input stages
\* write no intent.
C5_NoIntentWhenDisabled ==
    (Done("keyboard_input") \/ Done("gamepad_input")) /\ ~InputEnabled =>
        written = <<>>

\* C5 amended: while no controller has input enabled, keyboard_input writes
\* no Look, a Move exactly when the direction keys give a direction and a
\* Jump exactly when Space is newly pressed; gamepad_input writes nothing.
C5_OnlyKeysWhenDisabled ==
    ~InputEnabled =>
        /\ Done("keyboard_input") =>
              LET keys == input.read.keys
              IN  /\ Only(written, "Look") = <<>>
                  /\ Only(written, "Move") # <<>> <=>
                        (keys.right # keys.left \/ keys.up # keys.down)
                  /\ Only(written, "Jump") # <<>> <=>
                        (input.read.space /\ Space \notin before.pressed)
        /\ Done("gamepad_input") => movement_reader = before.movement_reader

\* Nobody enabled, mouse motion pending, keys and a gamepad engaged.
C5_Witness ==
    /\ Done("gamepad_input")
    /\ ~InputEnabled
    /\ mouse_motion # <<>>
    /\ input.read.gamepads # <<>> /\ input.read.gamepads[1].south
    /\ Only(written, "Move") # <<>>
    /\ Only(written, "Jump") # <<>>

\* The horizontal velocity after the Moves, each adding its increment.
RECURSIVE AfterMoves(_, _, _, _, _)
AfterMoves(b, rot, velocity, moves, rate) ==
    IF moves = <<>> THEN velocity
    ELSE LET increment == MovementVector(b, rot, Head(moves).v, rate)
         IN  AfterMoves(b, rot,
                        << velocity[1] + increment[1], velocity[2],
                           velocity[3] + increment[3] >>,
                        Tail(moves), rate)

\* C6 as claimed: the input stages write at most one Move per frame, and when
\* several sources supply a direction movement adds the increment of the
\* last one only.
C6_AtMostOneMove ==
    /\ Done("gamepad_input") => Len(Only(written, "Move")) <= 1
    /\ Done("movement") =>
          \A b \in Bodies :
              LET moves == Only(written, "Move")
                  last  == IF moves = <<>> THEN <<>> ELSE << moves[Len(moves)] >>
                  after == AfterMoves(b, rotation[b], before.linear_velocity[b], last,
                                      input.read.rate)
              IN  enable_input[b] =>
                      /\ linear_velocity[b][1] = after[1]
                      /\ linear_velocity[b][3] = after[3]

\* C6 amended: keyboard_input writes at most one Move and gamepad_input at
\* most one per connected gamepad, the keyboard's first; movement adds the
\* increment of every one of them to an enabled body's horizontal velocity.
C6_OneMovePerSource ==
    /\ Done("keyboard_input") => Len(Only(written, "Move")) <= 1
    /\ Done("gamepad_input") =>
          Len(Only(written, "Move"))
              <= Len(Only(Read(before.movement_reader.movement), "Move"))
                    + Len(input.read.gamepads)
    /\ Done("movement") =>
          \A b \in Bodies :
              LET after == AfterMoves(b, rotation[b], before.linear_velocity[b],
                                      Only(written, "Move"), input.read.rate)
              IN  enable_input[b] =>
                      /\ linear_velocity[b][1] = after[1]
                      /\ linear_velocity[b][3] = after[3]

\* The keyboard and a gamepad both give a direction, and both are added.
C6_Witness ==
    /\ Done("movement")
    /\ Len(Only(written, "Move")) = 2
    /\ \A i \in 1..2 : Only(written, "Move")[i].v # <<0, 0>>
    /\ \E b \in Bodies :
          /\ enable_input[b]
          /\ linear_velocity[b][1] # before.linear_velocity[b][1]
          /\ linear_velocity[b][3] # before.linear_velocity[b][3]

\* The seven stages in the order of the claim.
Stages ==
    << "manage_cursor", "keyboard_input", "gamepad_input", "update_grounded",
       "movement", "mouse_look", "apply_movement_damping" >>

\* C7: in every frame the systems that have run are the first stages of the
\* fixed order, each once; the next to run is the one that follows them, and
\* a frame ends only when all seven have run.
C7_StagesInOrder ==
    /\ Len(ran) <= Len(Stages)
    /\ ran = SubSeq(Stages, 1, Len(ran))
    /\ pc # 0 => pc = Len(ran) + 1 /\ Chain[pc] = Stages[Len(ran) + 1]
    /\ pc = 0 => (tick = 0 /\ ran = <<>>) \/ ran = Stages

\* The second frame has run all seven stages.
C7_Witness == tick = 2 /\ pc = 0 /\ ran = Stages

RECURSIVE Gcd(_, _)
Gcd(a, b) == IF b = 0 THEN a ELSE Gcd(b, a % b)

RECURSIVE Power(_, _)
Power(a, n) == IF n = 0 THEN 1 ELSE a * Power(a, n - 1)

\* Whether v is v0 * f^n, to within half a thousandth per frame.
Decayed(v, v0, b, n) ==
    LET g   == Gcd(damping_factors[b], Unit)
        num == damping_factors[b] \div g
        den == Unit \div g
    IN  2 * Abs(v * Power(den, n) - v0 * Power(num, n)) <= n * Power(den, n)

\* C8: apply_movement_damping multiplies the X and Z velocity of every body,
\* enabled or not, by its damping factor and leaves Y; the horizontal speed
\* does not increase for a factor in [0, 1]; and a body that movement has
\* left alone for n frames has its initial velocity times f^n horizontally
\* and its initial vertical velocity.
C8_Damping ==
    /\ Done("apply_movement_damping") =>
          \A b \in Bodies :
              /\ linear_velocity[b] = DampedBy(b, before.linear_velocity[b])
              /\ damping_factors[b] \in 0..Unit =>
                    /\ Abs(linear_velocity[b][1]) <= Abs(before.linear_velocity[b][1])
                    /\ Abs(linear_velocity[b][3]) <= Abs(before.linear_velocity[b][3])
    /\ pc = 0 =>
          \A b \in coasting :
              /\ linear_velocity[b][2] = InitialVelocity(b)[2]
              /\ Decayed(linear_velocity[b][1], InitialVelocity(b)[1], b, tick)
              /\ Decayed(linear_velocity[b][3], InitialVelocity(b)[3], b, tick)

\* Two frames of damping alone on a moving body, one of them with input on.
C8_Witness ==
    /\ pc = 0 /\ tick = 2
    /\ \E b \in coasting :
          /\ InitialVelocity(b)[1] # 0
          /\ linear_velocity[b][1] # before.linear_velocity[b][1]
          /\ enable_input[b]

\* C9: movement and mouse_look each read exactly the intents written in this
\* frame, once and in order, whether or not a body took them; nothing is left
\* unread for a later frame.
C9_ConsumedOncePerFrame ==
    /\ Done("movement") =>
          input.read.events = written /\ movement_reader.movement = <<>>
    /\ Done("mouse_look") =>
          input.read.events = written /\ movement_reader.mouse_look = <<>>
    /\ pc \in {0, 1, 2} =>
          movement_reader.movement = <<>> /\ movement_reader.mouse_look = <<>>
    /\ pc \in 3..5 =>
          /\ Read(movement_reader.movement) = written
          /\ Read(movement_reader.mouse_look) = written

\* The second frame's readers are done; its Jump found no body to take it.
C9_Witness ==
    /\ tick = 2
    /\ Done("mouse_look")
    /\ Only(written, "Jump") # <<>>
    /\ Only(written, "Move") # <<>>
    /\ \A b \in Bodies : ~enable_input[b] \/ ~grounded[b]
    /\ \E b \in Bodies : enable_input[b]
    /\ \E b \in Bodies : ~enable_input[b]

\* One event on one body, by movement and by mouse_look.
Apply(b, body, event, rate) ==
    LET view == LookBody(b, enable_input[b],
                         [rotation |-> body.rotation, pitch |-> body.pitch,
                          camera |-> body.camera],
                         event)
    IN  [ linear_velocity |->
              MoveBody(b, enable_input[b], grounded[b], body.rotation,
                       body.linear_velocity, event, rate),
          rotation |-> view.rotation,
          pitch    |-> view.pitch,
          camera   |-> view.camera ]

\* The events one by one, in order.
RECURSIVE ApplyInOrder(_, _, _, _)
ApplyInOrder(b, body, events, rate) ==
    IF events = <<>> THEN body
    ELSE ApplyInOrder(b, Apply(b, body, Head(events), rate), Tail(events), rate)

\* The components of body b in the world w that the intents act on.
BodyIn(w, b) ==
    [ linear_velocity |-> w.linear_velocity[b],
      rotation        |-> w.rotation[b],
      pitch           |-> w.pitch[b],
      camera          |-> w.camera[b] ]

\* C10 as claimed: after the frame's intents a body is in the state reached
\* by applying the Move, Jump and Look intents one by one in queue order.
C10_AppliedInQueueOrder ==
    Done("mouse_look") =>
        \A b \in Bodies :
            \E rate \in FrameRates :
                BodyIn(World, b) = ApplyInOrder(b, BodyIn(start, b), written, rate)

\* C10 amended: after the frame's intents a body is in the state reached by
\* applying all the Move and Jump intents in queue order, and then all the
\* Look intents in queue order.
C10_MovesThenLooks ==
    Done("mouse_look") =>
        \A b \in Bodies :
            \E rate \in FrameRates :
                BodyIn(World, b) =
                    ApplyInOrder(b, BodyIn(start, b),
                                 SelectSeq(written, LAMBDA e : e.kind # "Look")
                                    \o Only(written, "Look"),
                                 rate)

\* A Move that follows a turning Look in the queue is applied with the
\* rotation from before the Look.
C10_Witness ==
    /\ Done("mouse_look")
    /\ \E i, j \in 1..Len(written) :
          /\ i < j
          /\ written[i].kind = "Look" /\ written[i].v[1] # 0
          /\ written[j].kind = "Move" /\ written[j].v # <<0, 0>>
    /\ \E b \in Bodies :
          /\ enable_input[b]
          /\ rotation[b] # start.rotation[b]
          /\ \A rate \in FrameRates :
                BodyIn(World, b) # ApplyInOrder(b, BodyIn(start, b), written, rate)

\* The triggers whose device state is down, as the input systems found them.
Down(space, gamepads) ==
    (IF space THEN {Space} ELSE {})
        \cup { South(i) : i \in { j \in 1..Len(gamepads) : gamepads[j].south } }

\* C11: a jump trigger gives a Jump only in the frame in which it goes from
\* released to pressed.  `pressed` follows the devices (Space after
\* keyboard_input, the South buttons after gamepad_input, nothing else changes
\* it), so start.pressed is what was down in the frame before; the Jumps
\* written in a frame are one for Space if it is down and was not, and, when
\* input is enabled, one for each South button that is down and was not.
C11_JumpOnPressEdge ==
    /\ ran = <<>> => pressed = start.pressed
    /\ ran # <<>> /\ ~Done("keyboard_input") /\ ~Done("gamepad_input") =>
          pressed = before.pressed
    /\ Done("keyboard_input") =>
          /\ pressed \ {Space} = start.pressed \ {Space}
          /\ (Space \in pressed) = input.read.space
          /\ Len(Only(written, "Jump")) =
                Bit(input.read.space /\ Space \notin start.pressed)
    /\ Done("gamepad_input") =>
          /\ pressed = Down(Space \in before.pressed, input.read.gamepads)
          /\ Len(Only(written, "Jump")) =
                Bit(Space \in pressed /\ Space \notin start.pressed)
                + (IF InputEnabled
                   THEN Cardinality({ t \in pressed \ start.pressed : t # Space })
                   ELSE 0)

\* Space and a South button pressed in the first frame are still held in the
\* second, with input enabled throughout: the second frame has no Jump.
C11_Witness ==
    /\ tick = 2
    /\ Done("gamepad_input")
    /\ InputEnabled /\ (\E b \in Bodies : start.enable_input[b])
    /\ {Space, South(1)} \subseteq start.pressed
    /\ {Space, South(1)} \subseteq pressed
    /\ Only(written, "Jump") = <<>>

\* The cursor grabbed and the cursor free.
Locked == [grab_mode |-> "Locked", visible |-> FALSE]
Free   == [grab_mode |-> "None", visible |-> TRUE]

\* C12: manage_cursor acts on press edges only.  With Left just pressed and
\* Escape not, every controller is enabled and the cursor locked and hidden;
\* with Escape just pressed and Left not, every controller is disabled and the
\* cursor free and shown; with neither, the flags and the cursor are as they
\* were.  No other system changes the flags or the cursor.
C12_CursorOnPressEdges ==
    /\ Done("manage_cursor") =>
          /\ input.read.left /\ ~input.read.escape =>
                /\ \A b \in Bodies : enable_input[b]
                /\ cursor_options = Locked
          /\ input.read.escape /\ ~input.read.left =>
                /\ \A b \in Bodies : ~enable_input[b]
                /\ cursor_options = Free
          /\ ~input.read.left /\ ~input.read.escape =>
                /\ enable_input = before.enable_input
                /\ cursor_options = before.cursor_options
    /\ ~Done("manage_cursor") =>
          /\ enable_input = before.enable_input
          /\ cursor_options = before.cursor_options

\* Grabbed by a click in the first frame, released by Escape in the second.
C12_Witness ==
    /\ tick = 2
    /\ Done("manage_cursor")
    /\ input.read.escape /\ ~input.read.left
    /\ \A b \in Bodies : before.enable_input[b] /\ ~enable_input[b]
    /\ before.cursor_options = Locked /\ cursor_options = Free

\* The case of C13: body b has acceleration 30 and damping factor 0.9, has
\* input enabled, started the frame at rest and upright, and the frame's only
\* intent is Move(1, 0).
SingleMove(b) ==
    /\ Params(b).acceleration = 30 * Unit
    /\ damping_factors[b] = (9 * Unit) \div 10
    /\ enable_input[b]
    /\ start.linear_velocity[b] = ZERO
    /\ start.rotation[b] = IDENTITY
    /\ written = << Move(<<Unit, 0>>) >>

\* C13: in that case, at 60 frames a second, the velocity is (0.5, 0, 0)
\* after movement and until damping, and (0.45, 0, 0) after
\* apply_movement_damping.
C13_EndToEnd ==
    \A b \in Bodies :
        SingleMove(b) =>
            /\ Done("movement") /\ input.read.rate = 60 =>
                  linear_velocity[b] = <<Unit \div 2, 0, 0>>
            /\ Done("mouse_look") => linear_velocity[b] = <<Unit \div 2, 0, 0>>
            /\ Done("apply_movement_damping") =>
                  linear_velocity[b] = <<(45 * Unit) \div 100, 0, 0>>

\* The end of such a frame, the body grounded.
C13_Witness ==
    /\ Done("apply_movement_damping")
    /\ \E b \in Bodies :
          /\ SingleMove(b)
          /\ grounded[b]
          /\ linear_velocity[b] = <<450, 0, 0>>

\* C14 as claimed: no system panics, whatever the inputs and whatever the
\* values of the public parameter fields.
C14_NeverAborts == pc # Aborted

\* The squared length of a 2-vector.
LengthSquared(v) == v[1] * v[1] + v[2] * v[2]

\* Whether the Move direction v is the clamp of the axis values raw: raw
\* itself if it is no longer than 1, else a vector of length 1 along raw, to
\* within the rounding of the thousandths (two of them in length, one across).
ClampedFrom(v, raw) ==
    IF LengthSquared(raw) <= Unit * Unit THEN v = raw
    ELSE /\ (Unit - 2) * (Unit - 2) <= LengthSquared(v)
         /\ LengthSquared(v) <= (Unit + 2) * (Unit + 2)
         /\ v[1] * raw[1] + v[2] * raw[2] > 0
         /\ LET across == v[1] * raw[2] - v[2] * raw[1]
            IN  across * across <= LengthSquared(raw)

\* The axis values of the direction keys.
KeyAxes(keys) ==
    << (Bit(keys.right) - Bit(keys.left)) * Unit, (Bit(keys.up) - Bit(keys.down)) * Unit >>

\* C15: every Move written has a direction no longer than 1, and it is the
\* clamp of the axis values it was made from: the keys' for the Move of
\* keyboard_input, the left stick's for the Move of gamepad_input.
C15_MoveClamped ==
    /\ \A i \in 1..Len(written) :
          written[i].kind = "Move" =>
              LengthSquared(written[i].v) <= (Unit + 2) * (Unit + 2)
    /\ Done("keyboard_input") =>
          \A i \in 1..Len(written) :
              written[i].kind = "Move" =>
                  ClampedFrom(written[i].v, KeyAxes(input.read.keys))
    /\ Done("gamepad_input") /\ InputEnabled /\ input.read.gamepads # <<>> =>
          ClampedFrom(Only(written, "Move")[Len(Only(written, "Move"))].v,
                      input.read.gamepads[1].left)

\* Two perpendicular keys held and the stick in a corner: both Moves have
\* length 1 along the diagonal.
C15_Witness ==
    /\ Done("gamepad_input")
    /\ Len(written) = 2
    /\ input.read.gamepads # <<>>
    /\ input.read.gamepads[1].left = <<Unit, Unit>>
    /\ written[1] = Move(<<707, 707>>)
    /\ written[2] = Move(<<707, 707>>)

\* C16 as claimed, the damping parameter as MovementBundle::new documents it:
\* with 0.0 the damping leaves the horizontal velocity as it is, with 1.0 it
\* leaves none.
C16_DampingAsDocumented ==
    Done("apply_movement_damping") =>
        \A b \in Bodies :
            /\ damping_factors[b] = 0 =>
                  linear_velocity[b] = before.linear_velocity[b]
            /\ damping_factors[b] = Unit =>
                  linear_velocity[b][1] = 0 /\ linear_velocity[b][3] = 0

\* C17 as claimed, manage_cursor as its doc comment and the example's
\* instructions describe it: in a frame in which the right mouse button is
\* just pressed (and Escape is not) the cursor is locked and hidden and every
\* controller has input enabled.
C17_RightClickGrabs ==
    Done("manage_cursor") /\ input.read.right /\ ~input.read.escape =>
        /\ cursor_options = Locked
        /\ \A b \in Bodies : enable_input[b]

\* Whether this frame's hits ground body b.
GroundedNow(b) == IsGrounded(start.hits[b], rotation[b], Params(b).max_slope_angle)

\* C18: the Jump of a frame is gated by the ground found in that frame.  After
\* movement has read a Jump, an enabled body whose hits of this frame pass the
\* slope test has its jump impulse as vertical velocity, and one whose hits do
\* not has the vertical velocity it had, whatever the marker was when the
\* frame began.
C18_JumpGatedBySameFrameGround ==
    Done("movement") /\ Only(input.read.events, "Jump") # <<>> =>
        \A b \in Bodies :
            enable_input[b] =>
                /\ GroundedNow(b) => linear_velocity[b][2] = Params(b).jump_impulse
                /\ ~GroundedNow(b) =>
                      linear_velocity[b][2] = before.linear_velocity[b][2]

\* A body in the air at the end of the first frame lands in the second and
\* jumps in it.
C18_Witness ==
    /\ tick = 2
    /\ Done("movement")
    /\ Only(input.read.events, "Jump") # <<>>
    /\ \E b \in Bodies :
          /\ enable_input[b]
          /\ ~start.grounded[b]
          /\ GroundedNow(b)
          /\ before.linear_velocity[b][2] # Params(b).jump_impulse
          /\ linear_velocity[b][2] = Params(b).jump_impulse

\* A body on the ground at the end of the first frame has left it in the
\* second and does not jump in it.
C18_LeftTheGround ==
    /\ tick = 2
    /\ Done("movement")
    /\ Only(input.read.events, "Jump") # <<>>
    /\ \E b \in Bodies :
          /\ enable_input[b]
          /\ start.grounded[b]
          /\ ~GroundedNow(b)
          /\ linear_velocity[b][2] = before.linear_velocity[b][2]
          /\ linear_velocity[b][2] # Params(b).jump_impulse

\* The rotation of body b after the yaw of each Look, in order.
RECURSIVE YawAfter(_, _, _)
YawAfter(b, rot, looks) ==
    IF looks = <<>> THEN rot
    ELSE YawAfter(b, Compose(FromRotationY(-Mul(Head(looks).v[1],
                                                Params(b).mouse_sensitivity)), rot),
                  Tail(looks))

\* C19: once mouse_look has processed Looks for an enabled body, the camera
\* child's rotation is the X rotation by the body's pitch, so Looks that all
\* have delta y = 0 leave it as it was; a body without a camera child has its
\* pitch and its yaw updated all the same.
C19_CameraSetToPitch ==
    Done("mouse_look") =>
        LET looks == Only(input.read.events, "Look")
        IN  \A b \in Bodies :
                enable_input[b] /\ looks # <<>> =>
                    /\ HasCamera(b) => camera[b] = pitch[b]
                    /\ HasCamera(b) /\ (\A i \in 1..Len(looks) : looks[i].v[2] = 0) =>
                          camera[b] = before.camera[b]
                    /\ ~HasCamera(b) =>
                          /\ camera[b] = NoCamera
                          /\ pitch[b] = PitchAfter(b, before.pitch[b], looks)
                          /\ rotation[b] = YawAfter(b, before.rotation[b], looks)

\* In the second frame two Looks with delta y = 0 reach bodies whose pitch the
\* first frame has raised: the camera stays at the pitch, and the body
\* without a camera has its pitch too.
C19_Witness ==
    /\ tick = 2
    /\ Done("mouse_look")
    /\ Len(Only(input.read.events, "Look")) = 2
    /\ \A i \in 1..Len(input.read.events) : input.read.events[i].v[2] = 0
    /\ \A b \in Bodies : enable_input[b]
    /\ \E b \in Bodies :
          /\ HasCamera(b)
          /\ pitch[b] # 0
          /\ camera[b] = pitch[b] /\ camera[b] = before.camera[b]
    /\ \E b \in Bodies :
          /\ ~HasCamera(b)
          /\ pitch[b] # 0
          /\ rotation[b] # InitialRotation(b)

\* The rotation, pitch and camera of body b in the world w.
ViewIn(w, b) ==
    [rotation |-> w.rotation[b], pitch |-> w.pitch[b], camera |-> w.camera[b]]

\* C20: each kind of intent has its own outputs.  movement leaves rotation,
\* pitch and camera alone; it changes X and Z only for a Move and Y only for a
\* Jump, and with the Looks left out it gives the same velocity.  mouse_look
\* leaves the velocity alone, changes nothing without a Look, and with the
\* Moves and Jumps left out it gives the same rotation, pitch and camera.
C20_EachKindItsOwnOutputs ==
    /\ Done("movement") =>
          LET events == input.read.events
          IN  \A b \in Bodies :
                  /\ ViewIn(World, b) = ViewIn(before, b)
                  /\ Only(events, "Jump") = <<>> =>
                        linear_velocity[b][2] = before.linear_velocity[b][2]
                  /\ Only(events, "Move") = <<>> =>
                        /\ linear_velocity[b][1] = before.linear_velocity[b][1]
                        /\ linear_velocity[b][3] = before.linear_velocity[b][3]
                  /\ linear_velocity[b] =
                        MoveAll(b, before.linear_velocity[b],
                                SelectSeq(events, LAMBDA e : e.kind # "Look"),
                                input.read.rate)
    /\ Done("mouse_look") =>
          LET events == input.read.events
          IN  \A b \in Bodies :
                  /\ linear_velocity[b] = before.linear_velocity[b]
                  /\ Only(events, "Look") = <<>> => ViewIn(World, b) = ViewIn(before, b)
                  /\ ViewIn(World, b) = LookAll(b, ViewIn(before, b), Only(events, "Look"))

\* movement has read a Move, but no Jump, for an enabled body lying on its
\* side, whose right axis points up: its vertical velocity is as it was.
C20_Witness ==
    /\ Done("movement")
    /\ Only(input.read.events, "Jump") = <<>>
    /\ Only(input.read.events, "Look") # <<>>
    /\ \E i \in 1..Len(input.read.events) :
          /\ input.read.events[i].kind = "Move"
          /\ input.read.events[i].v[1] # 0
    /\ \E b \in Bodies :
          /\ enable_input[b]
          /\ Rotate(rotation[b], X) = Y
          /\ linear_velocity[b][2] = before.linear_velocity[b][2]

\* C21: with Left and Escape both just pressed in a frame, Escape prevails:
\* after manage_cursor every controller has input disabled and the cursor is
\* free and shown, whatever they were before.
C21_EscapePrevails ==
    Done("manage_cursor") /\ input.read.left /\ input.read.escape =>
        /\ \A b \in Bodies : ~enable_input[b]
        /\ cursor_options = Free

\* Both pressed in the second frame, the cursor grabbed in the first.
C21_Witness ==
    /\ tick = 2
    /\ Done("manage_cursor")
    /\ input.read.left /\ input.read.escape
    /\ before.cursor_options = Locked
    /\ \A b \in Bodies : before.enable_input[b]
    /\ cursor_options = Free
    /\ \A b \in Bodies : ~enable_input[b]

\* C22: with every controller spawned with input disabled and the cursor
\* free, the cursor and the flags agree after manage_cursor, and in every
\* other state: the cursor is locked and hidden exactly when every controller
\* has input enabled, it is free and shown otherwise, and the controllers all
\* have the same flag.
C22_CursorAndFlagsAgree ==
    /\ cursor_options \in {Locked, Free}
    /\ (cursor_options = Locked) = (\A b \in Bodies : enable_input[b])
    /\ \A b, c \in Bodies : enable_input[b] = enable_input[c]

\* The second frame's manage_cursor saw no click and no Escape and has left
\* the cursor locked and the controllers enabled.
C22_Witness ==
    /\ tick = 2
    /\ Done("manage_cursor")
    /\ ~input.read.left /\ ~input.read.escape
    /\ cursor_options = Locked
    /\ \A b \in Bodies : enable_input[b]

\* The Looks of a list of MouseMotion deltas.
LooksOf(motion) == [i \in 1..Len(motion) |-> Look(motion[i])]

\* C23 as claimed: the Looks keyboard_input writes in a frame are those of the
\* mouse motion that arrived for that frame, and none when input is disabled;
\* motion of a frame in which input was disabled gives no Look later.
C23_NoStaleLook ==
    Done("keyboard_input") =>
        Only(written, "Look") = IF InputEnabled THEN LooksOf(arrived) ELSE <<>>

====
